---- MODULE Spec2Model ----
(***************************************************************************)
(* OzZoo: a turn-based zoo simulation.  The model covers the bounded       *)
(* vitals of animals, the capacity- and compatibility-checked enclosures,  *)
(* the resource ledger (ResourceManager), the Zoo aggregate with its daily *)
(* update, and the event catalogue driven by ZooManager.advance_day.       *)
(*                                                                         *)
(* Numbers.  Python floats are modelled exactly on the values the model    *)
(* draws: vitals and cleanliness are kept in tenths of a percent (0..1000  *)
(* for 0.0..100.0) so that hunger*0.1 and age*0.5 stay integral; money is  *)
(* in whole dollars and food in whole kilograms.  Every random draw is     *)
(* taken from a small set of values inside the range the code draws from.  *)
(***************************************************************************)
EXTENDS Integers, Sequences, FiniteSets, TLC

\* ---------------------------------------------------------------- bounds
MaxAnimals == 2
MaxDays == 1
MaxOps == 1
MaxTriggers == 1
MaxLedgerOps == 3
MaxPaddocks == 28
MaxObserved == 2
MaxMutations == 4
MaxUpdates == 7

\* ------------------------------------------------------ numeric helpers
T(x) == 10 * x

Min(a, b) == IF a <= b THEN a ELSE b

Max(a, b) == IF a >= b THEN a ELSE b

MinVital == T(0)

MaxVital == T(100)

\* a clamp that forgets the upper bound
ClampLow(v) == Max(MinVital, v)

\* max(0.0, min(100.0, value + amount))
Clamp(v) == Max(MinVital, Min(MaxVital, v))

RECURSIVE SumSeq(_)
SumSeq(s) == IF s = <<>> THEN 0 ELSE Head(s) + SumSeq(Tail(s))

\* str.lower() on the names the model uses
Lower(s) ==
  CASE s = "Rex" -> "rex"
    [] s = "REX" -> "rex"
    [] s = "Savannah Plains" -> "savannah plains"
    [] s = "Penguin Pool" -> "penguin pool"
    [] s = "PENGUIN POOL" -> "penguin pool"
    [] s = "Open Range" -> "open range"
    [] s = "Lion" -> "lion"
    [] s = "Zebra" -> "zebra"
    [] s = "Penguin" -> "penguin"
    [] s = "Bear" -> "bear"
    [] s = "Nowhere" -> "nowhere"
    [] OTHER -> s

\* ------------------------------------------------------------ the state
VARIABLES
  animal,      \* Seq of animal objects; an animal's identity is its index
  enclosures,  \* Zoo._enclosures: Seq of enclosure records
  ledger,      \* Zoo._resource_manager
  zoo,         \* visitor counters and days_operational
  mgr,         \* ZooManager and EventManager state, position in advance_day
  last,        \* outcome of the most recent call
  ops          \* number of calls made so far

vars == <<animal, enclosures, ledger, zoo, mgr, last, ops>>

\* ------------------------------------------------------ ResourceManager
FoodCategories == {"meat", "fish", "seeds", "fruits", "vegetables", "insects"}

InitialFood ==
  [f \in FoodCategories |->
     CASE f = "meat" -> 100 [] f = "fish" -> 50 [] f = "seeds" -> 200
       [] f = "fruits" -> 150 [] f = "vegetables" -> 100 [] OTHER -> 20]

MedicineCategories == {"vaccine", "antibiotics", "pain_reliever", "vitamins"}

InitialMedicine ==
  [m \in MedicineCategories |->
     CASE m = "vaccine" -> 10 [] m = "antibiotics" -> 15
       [] m = "pain_reliever" -> 20 [] OTHER -> 25]

\* ResourceManager.__init__
NewLedger(initial_funds) ==
  [funds |-> initial_funds, daily_costs |-> 0, daily_income |-> 0,
   food_supply |-> InitialFood, medicine_supply |-> InitialMedicine]

\* a guard that only asks for a ledger that is not overdrawn
CanAffordIfSolvent(l, amount) == l.funds >= 0

\* the guard of spend_funds that lets the debit through
CanAfford(l, amount) == l.funds >= amount

\* a spend_funds that books the cost before it finds the funds missing
spend_funds_booked(l, amount) ==
  IF amount < 0 THEN [ledger |-> l, err |-> "FinancialError"]
  ELSE IF l.funds >= amount
       THEN [ledger |-> [l EXCEPT !.funds = @ - amount,
                                  !.daily_costs = @ + amount],
             err |-> "none"]
       ELSE [ledger |-> [l EXCEPT !.daily_costs = @ + amount],
             err |-> "FinancialError"]

\* spend_funds: result is the ledger afterwards and the error raised, if any
\* (both failures are FinancialError in the code)
spend_funds(l, amount) ==
  IF amount < 0 THEN [ledger |-> l, err |-> "FinancialError"]
  ELSE IF CanAfford(l, amount)
       THEN [ledger |-> [l EXCEPT !.funds = @ - amount,
                                  !.daily_costs = @ + amount],
             err |-> "none"]
       ELSE [ledger |-> l, err |-> "FinancialError"]

\* an add_funds that books the income and forgets the funds
add_funds_income_only(l, amount) ==
  IF amount < 0 THEN [ledger |-> l, err |-> "ValueError"]
  ELSE [ledger |-> [l EXCEPT !.daily_income = @ + amount], err |-> "none"]

\* add_funds: result is the ledger afterwards and the error raised, if any
add_funds(l, amount) ==
  IF amount < 0 THEN [ledger |-> l, err |-> "ValueError"]
  ELSE [ledger |-> [l EXCEPT !.funds = @ + amount,
                             !.daily_income = @ + amount],
        err |-> "none"]

\* a use that debits without looking at what is left
UseSupplyNoCheck(supply, type, amount) ==
  IF type \notin DOMAIN supply THEN [supply |-> supply, err |-> "ResourceError"]
  ELSE [supply |-> [supply EXCEPT ![type] = @ - amount], err |-> "none"]

\* use_food / use_medicine on one supply mapping
UseSupply(supply, type, amount) ==
  IF type \notin DOMAIN supply THEN [supply |-> supply, err |-> "ResourceError"]
  ELSE IF supply[type] >= amount
       THEN [supply |-> [supply EXCEPT ![type] = @ - amount], err |-> "none"]
       ELSE [supply |-> supply, err |-> "ResourceError"]

use_food(l, food_type, amount) ==
  LET r == UseSupply(l.food_supply, food_type, amount)
  IN  [ledger |-> [l EXCEPT !.food_supply = r.supply], err |-> r.err]

use_medicine(l, medicine_type, quantity) ==
  LET r == UseSupply(l.medicine_supply, medicine_type, quantity)
  IN  [ledger |-> [l EXCEPT !.medicine_supply = r.supply], err |-> r.err]

\* the credit step of order_food / order_medicine
Credit(supply, type, amount) ==
  IF type \in DOMAIN supply
  THEN [supply EXCEPT ![type] = @ + amount]
  ELSE [t \in DOMAIN supply \cup {type} |->
          IF t = type THEN amount ELSE supply[t]]

\* an order_food that credits the supply before it spends
order_food_credit_first(l, food_type, amount, cost_per_kg) ==
  LET s == spend_funds(l, amount * cost_per_kg)
  IN  [ledger |-> [s.ledger EXCEPT
                     !.food_supply = Credit(@, food_type, amount)],
       ok |-> s.err = "none"]

\* order_food: spend, then credit; a FinancialError is caught and gives False
order_food(l, food_type, amount, cost_per_kg) ==
  LET s == spend_funds(l, amount * cost_per_kg)
  IN  IF s.err = "none"
      THEN [ledger |-> [s.ledger EXCEPT
                          !.food_supply = Credit(@, food_type, amount)],
            ok |-> TRUE]
      ELSE [ledger |-> s.ledger, ok |-> FALSE]

order_medicine(l, medicine_type, quantity, cost_per_unit) ==
  LET s == spend_funds(l, quantity * cost_per_unit)
  IN  IF s.err = "none"
      THEN [ledger |-> [s.ledger EXCEPT
                          !.medicine_supply = Credit(@, medicine_type, quantity)],
            ok |-> TRUE]
      ELSE [ledger |-> s.ledger, ok |-> FALSE]

reset_daily_stats(l) == [l EXCEPT !.daily_costs = 0, !.daily_income = 0]

\* --------------------------------------------------------------- Animal
HealthThreshold == T(30)

\* Animal.__init__ (health 100.0, hunger 0.0, happiness 100.0); kind names
\* the class whose eat and update_daily_status the object runs
NewAnimal(kind, name, species, age, diet, habitat, can_fly) ==
  [kind |-> kind, name |-> name, species |-> species, age |-> age,
   diet |-> diet, habitat |-> habitat, can_fly |-> can_fly,
   health |-> T(100), hunger |-> T(0), happiness |-> T(100)]

_modify_health(a, amount) == [a EXCEPT !.health = Clamp(@ + amount)]

_modify_hunger(a, amount) == [a EXCEPT !.hunger = Clamp(@ + amount)]

_modify_happiness(a, amount) == [a EXCEPT !.happiness = Clamp(@ + amount)]

MammalKinds == {"Mammal", "Lion", "Elephant"}

BirdKinds == {"Bird", "Eagle", "Penguin"}

\* the substring tests of the eat methods, on the food types fed by the zoo
HasMeat(food) == food = "meat"

HasFish(food) == food = "fish"

HasSeed(food) == food = "seeds"

HasPlant(food) == food \in {"fruits", "vegetables"}

Eat2(a, dh, dp) == _modify_happiness(_modify_hunger(a, dh), dp)

\* eat, per class: Lion, Elephant, Mammal, Eagle, Penguin, Bird
eat(a, food) ==
  CASE a.kind = "Lion" ->
         IF ~HasMeat(food) THEN a ELSE Eat2(a, -T(35), T(10))
    [] a.kind = "Elephant" ->
         IF HasPlant(food) THEN Eat2(a, -T(25), T(8))
         ELSE _modify_hunger(a, -T(15))
    [] a.kind = "Mammal" ->
         IF a.diet = "carnivore" /\ ~HasMeat(food) THEN a
         ELSE IF a.diet = "herbivore" /\ HasMeat(food) THEN a
         ELSE Eat2(a, -T(30), T(5))
    [] a.kind = "Eagle" ->
         IF HasFish(food) THEN Eat2(a, -T(30), T(12))
         ELSE _modify_hunger(a, -T(15))
    [] a.kind = "Penguin" ->
         IF HasFish(food) THEN Eat2(a, -T(20), T(12))
         ELSE _modify_hunger(a, -T(10))
    [] OTHER ->
         IF HasSeed(food) THEN Eat2(a, -T(25), T(8))
         ELSE _modify_hunger(a, -T(15))

\* the random draws of one update_daily_status call, as the joint outcomes
\* the model explores: hunger gain in [5,15], health loss in [2,5] applied
\* when very hungry, ailment loss in [1,3] (0: no ailment drawn), and
\* whether the mammal social bonus is drawn
NoDraw == [hunger |-> T(5), starve |-> T(2), ail |-> 0, social |-> FALSE]

HardDraw == [hunger |-> T(15), starve |-> T(5), ail |-> T(3), social |-> FALSE]

SocialDraw == [hunger |-> T(15), starve |-> T(5), ail |-> 0, social |-> TRUE]

\* Animal.update_daily_status
BaseDailyStatus(a, d) ==
  LET hunger1 == Min(MaxVital, a.hunger + d.hunger)
      health1 == IF hunger1 > T(70) THEN Max(MinVital, a.health - d.starve)
                 ELSE a.health
      decrease == (hunger1 \div 10) + (a.age * 5)
      happy1  == Max(MinVital, a.happiness - decrease)
      health2 == IF d.ail > 0 THEN Max(MinVital, health1 - d.ail) ELSE health1
  IN  [a EXCEPT !.hunger = hunger1, !.health = health2, !.happiness = happy1]

\* update_daily_status with the Mammal and Bird overrides
update_daily_status(a, d) ==
  LET b == BaseDailyStatus(a, d)
  IN  IF a.kind \in MammalKinds
      THEN (IF d.social THEN _modify_happiness(b, T(2)) ELSE b)
      ELSE IF a.kind \in BirdKinds
      THEN (IF a.can_fly THEN _modify_hunger(b, T(5)) ELSE b)
      ELSE b

\* ------------------------------------------------------------- Observer
\* notifications in which the death test does not wait for the other two
HealthNotificationsDeathApart(old_health, new_health) ==
  (IF new_health <= HealthThreshold /\ old_health > HealthThreshold
   THEN <<"health_critical">>
   ELSE IF new_health > HealthThreshold /\ old_health <= HealthThreshold
   THEN <<"health_improved">>
   ELSE <<>>)
  \o (IF new_health <= 0 /\ old_health > 0 THEN <<"animal_died">> ELSE <<>>)

\* ObservableAnimal._modify_health: the notifications, in order, that one
\* change from old_health to new_health sends to the observers
HealthNotifications(old_health, new_health) ==
  IF new_health <= HealthThreshold /\ old_health > HealthThreshold
  THEN <<"health_critical">>
  ELSE IF new_health > HealthThreshold /\ old_health <= HealthThreshold
  THEN <<"health_improved">>
  ELSE IF new_health <= 0 /\ old_health > 0
  THEN <<"animal_died">>
  ELSE <<>>

\* the key HealthMonitor files an animal under: f"{name}_{species}"
AnimalKey(a) == a.name \o "_" \o a.species

\* HealthMonitor.update on the set of critical animals
MonitorUpdate(critical, a, event) ==
  IF event = "health_critical" THEN critical \cup {AnimalKey(a)}
  ELSE IF event \in {"health_improved", "animal_died"}
  THEN critical \ {AnimalKey(a)}
  ELSE critical

\* ObservableAnimal.notify for each notification of a sequence
RECURSIVE NotifyAll(_, _, _)
NotifyAll(critical, a, events) ==
  IF events = <<>> THEN critical
  ELSE NotifyAll(MonitorUpdate(critical, a, Head(events)), a, Tail(events))

\* ------------------------------------------------------------ Enclosure
\* Enclosure.__init__
NewEnclosure(name, capacity, enclosure_type, compatible_species) ==
  [name |-> name, capacity |-> capacity, enclosure_type |-> enclosure_type,
   compatible_species |-> compatible_species, animals |-> <<>>,
   cleanliness |-> T(100)]

\* the residents of an enclosure as a set of animal identities
Residents(e) == {e.animals[i] : i \in DOMAIN e.animals}

\* a capacity check that is off by one
AtCapacityPast(e) == Len(e.animals) > e.capacity

\* the capacity check of add_animal
AtCapacity(e) == Len(e.animals) >= e.capacity

\* a carnivore rule that only looks at carnivorous residents
CarnivoreConflictOneWay(existing, new) ==
  /\ existing.diet = "carnivore"
  /\ new.diet # "carnivore"
  /\ existing.species # new.species

\* the carnivore rule of _is_animal_compatible for one resident
CarnivoreConflict(existing, new) ==
  \/ /\ existing.diet = "carnivore"
     /\ new.diet # "carnivore"
     /\ existing.species # new.species
  \/ /\ new.diet = "carnivore"
     /\ existing.diet # "carnivore"
     /\ existing.species # new.species

\* Enclosure._is_animal_compatible; anim maps identities to animal objects
_is_animal_compatible(e, anim, new) ==
  IF e.animals = <<>> THEN TRUE
  ELSE IF e.compatible_species # {} /\ new.species \notin e.compatible_species
       THEN FALSE
       ELSE \A i \in Residents(e) : ~CarnivoreConflict(anim[i], new)

\* an add_animal that never checks the capacity
AddAnimalErrorNoLimit(e, anim, new) ==
  IF ~_is_animal_compatible(e, anim, new) THEN "CompatibilityError"
  ELSE "none"

\* Enclosure.add_animal: the exception it raises, or "none" when it appends
AddAnimalError(e, anim, new) ==
  IF AtCapacity(e) THEN "EnclosureError"
  ELSE IF ~_is_animal_compatible(e, anim, new) THEN "CompatibilityError"
  ELSE "none"

\* an add_animal that appends the animal whatever its checks say
add_animal_forced(e, anim, new) ==
  [encl |-> [e EXCEPT !.animals = Append(@, Len(anim) + 1)],
   anim |-> Append(anim, new), err |-> AddAnimalError(e, anim, new)]

\* Enclosure.add_animal of a newly constructed animal: on success the object
\* gets the next identity and is appended to the resident list
add_animal(e, anim, new) ==
  LET err == AddAnimalError(e, anim, new)
  IN  IF err = "none"
      THEN [encl |-> [e EXCEPT !.animals = Append(@, Len(anim) + 1)],
            anim |-> Append(anim, new), err |-> err]
      ELSE [encl |-> e, anim |-> anim, err |-> err]

\* Enclosure.add_animal of the animal with identity i, which exists already:
\* the same checks, and no look at where the animal lives
add_resident(e, anim, i) ==
  LET err == AddAnimalError(e, anim, anim[i])
  IN  IF err = "none"
      THEN [encl |-> [e EXCEPT !.animals = Append(@, i)], err |-> err]
      ELSE [encl |-> e, err |-> err]

\* index of the first resident whose name matches case-insensitively, or 0
RECURSIVE FirstNamed(_, _, _, _)
FirstNamed(ids, anim, animal_name, i) ==
  IF i > Len(ids) THEN 0
  ELSE IF Lower(anim[ids[i]].name) = Lower(animal_name) THEN i
  ELSE FirstNamed(ids, anim, animal_name, i + 1)

\* list.pop(i)
Pop(s, i) == SubSeq(s, 1, i - 1) \o SubSeq(s, i + 1, Len(s))

\* Enclosure.remove_animal: the residents afterwards
remove_animal(e, anim, animal_name) ==
  LET i == FirstNamed(e.animals, anim, animal_name, 1)
  IN  IF i = 0 THEN e ELSE [e EXCEPT !.animals = Pop(@, i)]

needs_cleaning(e) == e.cleanliness < T(30)

clean(e) == [e EXCEPT !.cleanliness = T(100)]

\* apply eat to every resident in order
RECURSIVE EatAll(_, _, _)
EatAll(anim, ids, food) ==
  IF ids = <<>> THEN anim
  ELSE EatAll([anim EXCEPT ![Head(ids)] = eat(@, food)], Tail(ids), food)

\* a feeding in which the residents eat although the supply gave nothing
feed_animals_eat_anyway(e, anim, l, food_type) ==
  LET u == use_food(l, food_type, Len(e.animals) * 2)
  IN  [anim |-> EatAll(anim, e.animals, food_type), ledger |-> u.ledger,
       failed |-> IF u.err = "none" THEN 0 ELSE 1]

\* Enclosure.feed_animals: 2 kg per resident, nobody eats if use_food raises
feed_animals(e, anim, l, food_type) ==
  LET u == use_food(l, food_type, Len(e.animals) * 2)
  IN  IF u.err = "none"
      THEN [anim |-> EatAll(anim, e.animals, food_type), ledger |-> u.ledger,
            failed |-> 0]
      ELSE [anim |-> anim, ledger |-> u.ledger, failed |-> 1]

\* apply update_daily_status to every resident in order
RECURSIVE UpdateAll(_, _, _)
UpdateAll(anim, ids, draws) ==
  IF ids = <<>> THEN anim
  ELSE UpdateAll([anim EXCEPT ![Head(ids)] =
                    update_daily_status(@, draws[Head(ids)])],
                 Tail(ids), draws)

RECURSIVE PenaltyAll(_, _)
PenaltyAll(anim, ids) ==
  IF ids = <<>> THEN anim
  ELSE PenaltyAll([anim EXCEPT ![Head(ids)] = _modify_happiness(@, -T(5))],
                  Tail(ids))

\* a daily update whose happiness penalty looks at the cleanliness the
\* enclosure had before the residents soiled it
EnclosureDailyStatusStalePenalty(e, anim, dirt, draws) ==
  LET c  == Max(MinVital, e.cleanliness - (Len(e.animals) * dirt))
      a1 == UpdateAll(anim, e.animals, draws)
      a2 == IF e.cleanliness < T(50) THEN PenaltyAll(a1, e.animals) ELSE a1
  IN  [encl |-> [e EXCEPT !.cleanliness = c], anim |-> a2]

\* Enclosure.update_daily_status with the draw of uniform(2, 8) = dirt
EnclosureDailyStatus(e, anim, dirt, draws) ==
  LET c  == Max(MinVital, e.cleanliness - (Len(e.animals) * dirt))
      a1 == UpdateAll(anim, e.animals, draws)
      a2 == IF c < T(50) THEN PenaltyAll(a1, e.animals) ELSE a1
  IN  [encl |-> [e EXCEPT !.cleanliness = c], anim |-> a2]

\* ------------------------------------------------------------------ Zoo
TicketPrice == 25

\* Zoo.__init__
NewZoo == [visitors_today |-> 0, total_visitors |-> 0, days_operational |-> 0]

\* the index of the first enclosure with exactly this name, or 0
RECURSIVE NamedFrom(_, _, _)
NamedFrom(encs, enclosure_name, i) ==
  IF i > Len(encs) THEN 0
  ELSE IF encs[i].name = enclosure_name THEN i
  ELSE NamedFrom(encs, enclosure_name, i + 1)

\* a remove_enclosure that does not look for residents
remove_enclosure_any(encs, enclosure_name) ==
  LET k == NamedFrom(encs, enclosure_name, 1)
  IN  IF k = 0 THEN [encs |-> encs, ok |-> FALSE, err |-> "none"]
      ELSE [encs |-> SubSeq(encs, 1, k - 1) \o SubSeq(encs, k + 1, Len(encs)),
            ok |-> TRUE, err |-> "none"]

\* Zoo.remove_enclosure: EnclosureError for an enclosure with residents,
\* False for a name no enclosure has
remove_enclosure(encs, enclosure_name) ==
  LET k == NamedFrom(encs, enclosure_name, 1)
  IN  IF k = 0 THEN [encs |-> encs, ok |-> FALSE, err |-> "none"]
      ELSE IF Len(encs[k].animals) > 0
      THEN [encs |-> encs, ok |-> FALSE, err |-> "EnclosureError"]
      ELSE [encs |-> SubSeq(encs, 1, k - 1) \o SubSeq(encs, k + 1, Len(encs)),
            ok |-> TRUE, err |-> "none"]

\* Zoo._find_enclosure: index of the first enclosure whose name matches
\* case-insensitively, or 0
RECURSIVE FindFrom(_, _, _)
FindFrom(encs, enclosure_name, i) ==
  IF i > Len(encs) THEN 0
  ELSE IF Lower(encs[i].name) = Lower(enclosure_name) THEN i
  ELSE FindFrom(encs, enclosure_name, i + 1)

_find_enclosure(encs, enclosure_name) == FindFrom(encs, enclosure_name, 1)

\* Zoo.get_animal_count
get_animal_count(encs) == SumSeq([i \in DOMAIN encs |-> Len(encs[i].animals)])

\* Zoo._determine_food_type
_determine_food_type(anim, ids) ==
  IF \E i \in DOMAIN ids : anim[ids[i]].diet = "carnivore" THEN "meat"
  ELSE IF \E i \in DOMAIN ids : anim[ids[i]].diet = "herbivore"
       THEN "vegetables"
       ELSE "seeds"

\* Zoo.feed_animals(None): every enclosure in order, from index i on
RECURSIVE FeedFrom(_, _, _, _)
FeedFrom(encs, anim, l, i) ==
  IF i > Len(encs) THEN [anim |-> anim, ledger |-> l, failed |-> 0]
  ELSE LET r == feed_animals(encs[i], anim, l,
                             _determine_food_type(anim, encs[i].animals))
           rest == FeedFrom(encs, r.anim, r.ledger, i + 1)
       IN  [rest EXCEPT !.failed = @ + r.failed]

\* Zoo.order_supplies: three food orders and two medicine orders
order_supplies(l) ==
  LET l1 == order_food(l, "meat", 50, 8).ledger
      l2 == order_food(l1, "seeds", 100, 2).ledger
      l3 == order_food(l2, "vegetables", 80, 3).ledger
      l4 == order_medicine(l3, "vaccine", 5, 15).ledger
  IN  order_medicine(l4, "antibiotics", 10, 8).ledger

\* Zoo._pay_operating_costs: a FinancialError is caught and only reported
OperatingCost(encs) == 500 + (get_animal_count(encs) * 10) + (Len(encs) * 50)

\* an operating-cost step that pays whatever the ledger still holds
_pay_operating_costs_partial(l, encs) ==
  spend_funds(l, Min(l.funds, OperatingCost(encs))).ledger

\* an operating-cost step that books the cost whether or not it is covered
_pay_operating_costs_overdrawn(l, encs) ==
  [l EXCEPT !.funds = @ - OperatingCost(encs),
            !.daily_costs = @ + OperatingCost(encs)]

\* Zoo._pay_operating_costs: a FinancialError is caught and only reported
_pay_operating_costs(l, encs) == spend_funds(l, OperatingCost(encs)).ledger

\* Zoo._simulate_visitors with random_factor = rf
VisitorsToday(encs, rf) == Max(10, 100 + rf + (get_animal_count(encs) * 2))

\* the enclosure loop of Zoo.daily_update, from index i on
RECURSIVE UpdateEnclosuresFrom(_, _, _, _, _)
UpdateEnclosuresFrom(encs, anim, dirt, draws, i) ==
  IF i > Len(encs) THEN [encs |-> encs, anim |-> anim]
  ELSE LET r == EnclosureDailyStatus(encs[i], anim, dirt[i], draws)
       IN  UpdateEnclosuresFrom([encs EXCEPT ![i] = r.encl], r.anim,
                                dirt, draws, i + 1)

\* --------------------------------------------------------------- events
Events ==
  {"Heatwave", "PerfectWeather", "RainyDay", "AnimalBirth", "AnimalEscape",
   "GenerousDonor", "UnexpectedExpense", "SchoolTrip", "Protest"}

\* every resident of the zoo, enclosure by enclosure (from index i on)
RECURSIVE ResidentsFrom(_, _)
ResidentsFrom(encs, i) ==
  IF i > Len(encs) THEN <<>> ELSE encs[i].animals \o ResidentsFrom(encs, i + 1)

AllResidents(encs) == ResidentsFrom(encs, 1)

ResidentSet(encs) == {AllResidents(encs)[i] : i \in DOMAIN AllResidents(encs)}

\* the draws of one event over the residents, as explored by the model: the
\* same value of D for every member of S
Same(S, D) == {[i \in S |-> d] : d \in D}

\* what a trigger hands back: the state it leaves, its result record, whether
\* it set _occurred_today, and the exception it let escape ("none" if none)
Result(anim, encs, l, success, occurred, err, fin, vis) ==
  [anim |-> anim, encs |-> encs, ledger |-> l, success |-> success,
   occurred |-> occurred, err |-> err, fin |-> fin, vis |-> vis]

\* (health_loss, happiness_loss) of one animal, and the visitor loss
HeatDraws == {<<T(5), T(10)>>, <<T(15), T(25)>>}

HeatVisitorDraws == {20, 50}

RECURSIVE HeatAll(_, _, _)
HeatAll(anim, ids, loss) ==
  IF ids = <<>> THEN anim
  ELSE HeatAll([anim EXCEPT ![Head(ids)] =
                  _modify_happiness(_modify_health(@, -loss[Head(ids)][1]),
                                    -loss[Head(ids)][2])],
               Tail(ids), loss)

\* HeatwaveEvent.trigger
HeatwaveEvent(anim, encs, l) ==
  {Result(HeatAll(anim, AllResidents(encs), loss), encs, l,
          TRUE, TRUE, "none", 0, -v) :
     loss \in Same(ResidentSet(encs), HeatDraws),
     v \in HeatVisitorDraws}

PerfectHappinessDraws == {T(10), T(20)}

PerfectVisitorDraws == {30, 80}

RECURSIVE GainAll(_, _, _)
GainAll(anim, ids, g) ==
  IF ids = <<>> THEN anim
  ELSE GainAll([anim EXCEPT ![Head(ids)] = _modify_happiness(@, g[Head(ids)])],
               Tail(ids), g)

\* PerfectWeatherEvent.trigger
PerfectWeatherEvent(anim, encs, l) ==
  {Result(GainAll(anim, AllResidents(encs), g), encs, l,
          TRUE, TRUE, "none", 0, v) :
     g \in Same(ResidentSet(encs), PerfectHappinessDraws),
     v \in PerfectVisitorDraws}

RainLovers == {"Elephant", "Penguin"}

RainVisitorDraws == {10, 30}

RainCleanDraws == {T(5), T(15)}

\* the happiness change of RainyDayEvent for every resident
RainDelta(anim, encs) ==
  [i \in ResidentSet(encs) |->
     IF anim[i].species \in RainLovers THEN T(15) ELSE -T(8)]

\* RainyDayEvent.trigger
RainyDayEvent(anim, encs, l) ==
  {Result(GainAll(anim, AllResidents(encs), RainDelta(anim, encs)),
          [k \in DOMAIN encs |->
             [encs[k] EXCEPT !.cleanliness = Min(MaxVital, @ + boost[k])]],
          l, TRUE, TRUE, "none", 0, -v) :
     boost \in Same(DOMAIN encs, RainCleanDraws),
     v \in RainVisitorDraws}

\* AnimalFactory._animal_registry: the keys whose constructor accepts
\* (name, age), and the keys whose constructor raises TypeError on them
FactoryConcrete ==
  {"lion", "tiger", "eagle", "penguin", "elephant", "giraffe", "zebra"}

FactoryBroken == {"snake", "mammal", "bird", "reptile"}

\* AnimalFactory.create_animal: "none", or AnimalError for an unknown key and
\* for a constructor TypeError
create_animal(animal_type) ==
  IF animal_type \in FactoryConcrete THEN "none" ELSE "AnimalError"

\* ZooManager.create_animal_with_factory: after the factory call it
\* instantiates ObservableAnimal, which leaves eat and make_sound abstract,
\* so the instantiation raises TypeError; every error is re-raised
create_animal_with_factory(animal_type) ==
  IF create_animal(animal_type) # "none" THEN "AnimalError" ELSE "TypeError"

\* the (enclosure index, animal) pairs an animal event chooses from
Pairs(encs) ==
  UNION {{<<k, i>> : i \in Residents(encs[k])} : k \in DOMAIN encs}

\* AnimalBirthEvent.trigger: the baby comes from create_animal_with_factory;
\* any exception on the way is caught and reported as a failed birth
AnimalBirthEvent(anim, encs, l) ==
  LET parents == {p \in Pairs(encs) : anim[p[2]].age >= 2}
      fail == Result(anim, encs, l, FALSE, FALSE, "none", 0, 0)
      Born(p) ==
        LET k == p[1]
            parent == anim[p[2]]
            baby == NewAnimal("Observable", "Baby", parent.species, 0,
                              parent.diet, parent.habitat, FALSE)
            added == add_animal(encs[k], anim, baby)
        IN  IF create_animal_with_factory(Lower(parent.species)) # "none"
            THEN fail
            ELSE IF added.err # "none" THEN fail
            ELSE Result(GainAll(added.anim, added.encl.animals,
                                [i \in Residents(added.encl) |-> T(10)]),
                        [encs EXCEPT ![k] = added.encl],
                        l, TRUE, TRUE, "none", 0, 0)
  IN  IF parents = {} THEN {fail} ELSE {Born(p) : p \in parents}

EscapePenaltyDraws == {500, 2000}

EscapeVisitorDraws == {50, 100}

\* AnimalEscapeEvent.trigger: the removal comes first; the FinancialError of
\* an unaffordable penalty is not caught and leaves the trigger
AnimalEscapeEvent(anim, encs, l) ==
  LET escapers == {p \in Pairs(encs) : anim[p[2]].happiness < T(40)}
      Escaped(p, penalty, v) ==
        LET encs1 == [encs EXCEPT
                        ![p[1]] = remove_animal(@, anim, anim[p[2]].name)]
            s == spend_funds(l, penalty)
        IN  IF s.err # "none"
            THEN Result(anim, encs1, s.ledger, FALSE, FALSE, s.err, 0, 0)
            ELSE Result(anim, encs1, s.ledger, TRUE, TRUE, "none",
                        -penalty, -v)
  IN  IF escapers = {}
      THEN {Result(anim, encs, l, FALSE, FALSE, "none", 0, 0)}
      ELSE {Escaped(p, penalty, v) :
              p \in escapers, penalty \in EscapePenaltyDraws,
              v \in EscapeVisitorDraws}

DonationDraws == {1000, 5000}

\* a donor who gives the drawn base and no bonus for the days of the zoo
GenerousDonorEventNoBonus(anim, encs, l, day_count) ==
  {Result(anim, encs, add_funds(l, base).ledger, TRUE, TRUE, "none", base, 0) :
     base \in DonationDraws}

\* GenerousDonorEvent.trigger: the bonus is 10 per day of
\* zoo_manager.day_count, which advance_day has already incremented
GenerousDonorEvent(anim, encs, l, day_count) ==
  {Result(anim, encs, add_funds(l, base + (day_count * 10)).ledger,
          TRUE, TRUE, "none", base + (day_count * 10), 0) :
     base \in DonationDraws}

ExpenseDraws == {300, 1200}

\* UnexpectedExpenseEvent.trigger: events.py never imports FinancialError, so
\* reaching the except clause raises NameError, which leaves the trigger
UnexpectedExpenseEvent(anim, encs, l) ==
  {LET s == spend_funds(l, expense)
   IN  IF s.err = "none"
       THEN Result(anim, encs, s.ledger, TRUE, TRUE, "none", -expense, 0)
       ELSE Result(anim, encs, s.ledger, FALSE, FALSE, "NameError", 0, 0) :
     expense \in ExpenseDraws}

SchoolVisitorDraws == {80, 150}

\* SchoolTripEvent.trigger
SchoolTripEvent(anim, encs, l) ==
  {Result(anim, encs, l, TRUE, TRUE, "none", 0, v) : v \in SchoolVisitorDraws}

ProtestVisitorDraws == {60, 120}

\* ProtestEvent.trigger: the fizzled branch returns success without setting
\* _occurred_today
ProtestEvent(anim, encs, l) ==
  LET poor_conditions ==
        \/ \E k \in DOMAIN encs : needs_cleaning(encs[k])
        \/ \E i \in ResidentSet(encs) : anim[i].happiness < T(30)
  IN  IF poor_conditions
      THEN {Result(anim, encs, l, TRUE, TRUE, "none", 0, -v) :
              v \in ProtestVisitorDraws}
      ELSE {Result(anim, encs, l, TRUE, FALSE, "none", 0, -10)}

\* event.trigger(zoo_manager), by event
Trigger(ev, anim, encs, l, day_count) ==
  CASE ev = "Heatwave" -> HeatwaveEvent(anim, encs, l)
    [] ev = "PerfectWeather" -> PerfectWeatherEvent(anim, encs, l)
    [] ev = "RainyDay" -> RainyDayEvent(anim, encs, l)
    [] ev = "AnimalBirth" -> AnimalBirthEvent(anim, encs, l)
    [] ev = "AnimalEscape" -> AnimalEscapeEvent(anim, encs, l)
    [] ev = "GenerousDonor" -> GenerousDonorEvent(anim, encs, l, day_count)
    [] ev = "UnexpectedExpense" -> UnexpectedExpenseEvent(anim, encs, l)
    [] ev = "SchoolTrip" -> SchoolTripEvent(anim, encs, l)
    [] OTHER -> ProtestEvent(anim, encs, l)

\* ------------------------------------------------- the inputs of a run
\* the animals a caller constructs and offers to an enclosure; the second
\* and fourth have had _modify_health, _modify_hunger and _modify_happiness
\* applied before they are offered
Worn(a, dh, dg, dp) == _modify_happiness(_modify_hunger(_modify_health(a, dh), dg), dp)

Candidates ==
  << NewAnimal("Lion", "Rex", "Lion", 5, "carnivore", "savannah", FALSE),
     Worn(NewAnimal("Lion", "REX", "Lion", 2, "carnivore", "savannah", FALSE),
          -T(96), T(90), -T(65)),
     NewAnimal("Mammal", "zed", "Zebra", 3, "herbivore", "savannah", FALSE),
     Worn(NewAnimal("Penguin", "pip", "Penguin", 0, "carnivore", "arctic", FALSE),
          -T(68), T(60), -T(75)),
     NewAnimal("Mammal", "bo", "Bear", 4, "carnivore", "forest", FALSE),
     NewAnimal("Mammal", "bo", "Bear", 1, "omnivore", "forest", FALSE) >>

InitialFunds == {600}

EnclosureNames == {"savannah plains", "PENGUIN POOL", "Open Range", "Nowhere"}

AnimalNames == {"rex", "bo", "nobody"}

FeedTargets == {"ALL", "Savannah Plains", "Nowhere"}

\* the arguments of the direct ledger calls
Amounts == {-1, 0, 100, 600, 700}

OrderedFood == {"meat", "hay"}

OrderedMedicine == {"vaccine", "ointment"}

Quantities == {0, 10, 100}

UnitCosts == {5, 7}

\* the zoo after Zoo(name, initial_funds) and three add_enclosure calls
InitialEnclosures ==
  << NewEnclosure("Savannah Plains", 2, "savannah",
                  {"Lion", "Elephant", "Zebra", "Giraffe"}),
     NewEnclosure("Penguin Pool", 1, "arctic", {"Penguin"}),
     NewEnclosure("Open Range", 3, "forest", {}) >>

\* ZooManager.__init__ and EventManager.__init__; pc is the position inside
\* advance_day ("idle": no call in progress)
NewManager ==
  [day_count |-> 0, pc |-> "idle", num_events |-> 0, triggered |-> 0,
   tried |-> {}, occurred |-> {}, today_events |-> <<>>, critical |-> {}]

Outcome(op, arg, err, raised, ok, fin, vis) ==
  [op |-> op, arg |-> arg, err |-> err, raised |-> raised, ok |-> ok,
   fin |-> fin, vis |-> vis]

Init ==
  /\ animal = <<>>
  /\ enclosures = InitialEnclosures
  /\ \E f \in InitialFunds : ledger = NewLedger(f)
  /\ zoo = NewZoo
  /\ mgr = NewManager
  /\ last = Outcome("init", <<>>, "none", FALSE, TRUE, 0, 0)
  /\ ops = 0

\* between two days, within the days the model explores
Idle == mgr.pc = "idle" /\ mgr.day_count < MaxDays

\* -------------------------------------------------------------- actions
\* Enclosure.add_animal(animal) called directly; the exception reaches the
\* caller
EnclosureAddAnimal(k, c) ==
  /\ Idle
  /\ LET r == add_animal(enclosures[k], animal, Candidates[c])
     IN  /\ Len(r.anim) <= MaxAnimals
         /\ animal' = r.anim
         /\ enclosures' = [enclosures EXCEPT ![k] = r.encl]
         /\ last' = Outcome("Enclosure.add_animal", <<k, c>>, r.err,
                            r.err # "none", r.err = "none", 0, 0)
  /\ UNCHANGED <<ledger, zoo, mgr, ops>>

\* Zoo.add_animal(animal, enclosure_name): every exception of the enclosure
\* is caught and turned into False; an unknown name gives False as well
ZooAddAnimal(c, enclosure_name) ==
  /\ Idle
  /\ LET k == _find_enclosure(enclosures, enclosure_name)
     IN  IF k = 0
         THEN /\ last' = Outcome("Zoo.add_animal", <<0, c>>, "NotFound",
                                 FALSE, FALSE, 0, 0)
              /\ UNCHANGED <<animal, enclosures>>
         ELSE LET r == add_animal(enclosures[k], animal, Candidates[c])
              IN  /\ Len(r.anim) <= MaxAnimals
                  /\ animal' = r.anim
                  /\ enclosures' = [enclosures EXCEPT ![k] = r.encl]
                  /\ last' = Outcome("Zoo.add_animal", <<k, c>>, r.err,
                                     FALSE, r.err = "none", 0, 0)
  /\ UNCHANGED <<ledger, zoo, mgr, ops>>

\* Enclosure.remove_animal(animal_name)
EnclosureRemoveAnimal(k, animal_name) ==
  /\ Idle
  /\ ops < MaxOps
  /\ LET e == remove_animal(enclosures[k], animal, animal_name)
     IN  /\ enclosures' = [enclosures EXCEPT ![k] = e]
         /\ last' = Outcome("Enclosure.remove_animal", <<k>>, "none", FALSE,
                            e # enclosures[k], 0, 0)
  /\ ops' = ops + 1
  /\ UNCHANGED <<animal, ledger, zoo, mgr>>

\* Zoo.feed_animals(enclosure_name); "ALL" stands for None
ZooFeedAnimals(target) ==
  /\ Idle
  /\ ops < MaxOps
  /\ IF target = "ALL"
     THEN LET r == FeedFrom(enclosures, animal, ledger, 1)
          IN  /\ animal' = r.anim
              /\ ledger' = r.ledger
              /\ last' = Outcome("Zoo.feed_animals", <<0>>, "none", FALSE,
                                 r.failed = 0, 0, 0)
     ELSE LET k == _find_enclosure(enclosures, target)
          IN  IF k = 0
              THEN /\ last' = Outcome("Zoo.feed_animals", <<0>>,
                                      "EnclosureError", TRUE, FALSE, 0, 0)
                   /\ UNCHANGED <<animal, ledger>>
              ELSE LET r == feed_animals(enclosures[k], animal, ledger,
                              _determine_food_type(animal,
                                                   enclosures[k].animals))
                   IN  /\ animal' = r.anim
                       /\ ledger' = r.ledger
                       /\ last' = Outcome("Zoo.feed_animals", <<k>>, "none",
                                          FALSE, r.failed = 0, 0, 0)
  /\ ops' = ops + 1
  /\ UNCHANGED <<enclosures, zoo, mgr>>

\* ZooManager.clean_enclosures(None): clean every enclosure that needs it
CleanEnclosures ==
  /\ Idle
  /\ ops < MaxOps
  /\ enclosures' = [k \in DOMAIN enclosures |->
                      IF needs_cleaning(enclosures[k])
                      THEN clean(enclosures[k]) ELSE enclosures[k]]
  /\ last' = Outcome("clean_enclosures", <<>>, "none", FALSE,
                     \E k \in DOMAIN enclosures : needs_cleaning(enclosures[k]),
                     0, 0)
  /\ ops' = ops + 1
  /\ UNCHANGED <<animal, ledger, zoo, mgr>>

\* Zoo.order_supplies (ZooManager.buy_food)
OrderSupplies ==
  /\ Idle
  /\ ops < MaxOps
  /\ ledger' = order_supplies(ledger)
  /\ last' = Outcome("order_supplies", <<>>, "none", FALSE, TRUE, 0, 0)
  /\ ops' = ops + 1
  /\ UNCHANGED <<animal, enclosures, zoo, mgr>>

\* ResourceManager.spend_funds(amount) called directly; fin is the change
\* of funds the call made
SpendFunds(amount) ==
  /\ mgr.pc = "idle"
  /\ ops < MaxLedgerOps
  /\ LET r == spend_funds(ledger, amount)
     IN  /\ ledger' = r.ledger
         /\ last' = Outcome("spend_funds", <<amount>>, r.err, r.err # "none",
                            r.err = "none", r.ledger.funds - ledger.funds, 0)
  /\ ops' = ops + 1
  /\ UNCHANGED <<animal, enclosures, zoo, mgr>>

\* ResourceManager.add_funds(amount) called directly
AddFunds(amount) ==
  /\ mgr.pc = "idle"
  /\ ops < MaxLedgerOps
  /\ LET r == add_funds(ledger, amount)
     IN  /\ ledger' = r.ledger
         /\ last' = Outcome("add_funds", <<amount>>, r.err, r.err # "none",
                            r.err = "none", r.ledger.funds - ledger.funds, 0)
  /\ ops' = ops + 1
  /\ UNCHANGED <<animal, enclosures, zoo, mgr>>

\* ResourceManager.order_food(food_type, amount, cost_per_kg) called directly
OrderFood(food_type, amount, cost_per_kg) ==
  /\ mgr.pc = "idle"
  /\ ops < MaxLedgerOps
  /\ LET r == order_food(ledger, food_type, amount, cost_per_kg)
     IN  /\ ledger' = r.ledger
         /\ last' = Outcome("order_food", <<food_type, amount, cost_per_kg>>,
                            "none", FALSE, r.ok,
                            r.ledger.funds - ledger.funds, 0)
  /\ ops' = ops + 1
  /\ UNCHANGED <<animal, enclosures, zoo, mgr>>

\* ResourceManager.order_medicine(medicine_type, quantity, cost_per_unit)
\* called directly
OrderMedicine(medicine_type, quantity, cost_per_unit) ==
  /\ mgr.pc = "idle"
  /\ ops < MaxLedgerOps
  /\ LET r == order_medicine(ledger, medicine_type, quantity, cost_per_unit)
     IN  /\ ledger' = r.ledger
         /\ last' = Outcome("order_medicine",
                            <<medicine_type, quantity, cost_per_unit>>,
                            "none", FALSE, r.ok,
                            r.ledger.funds - ledger.funds, 0)
  /\ ops' = ops + 1
  /\ UNCHANGED <<animal, enclosures, zoo, mgr>>

\* ResourceManager.use_food(food_type, amount) called directly
UseFood(food_type, amount) ==
  /\ mgr.pc = "idle"
  /\ ops < MaxLedgerOps
  /\ LET r == use_food(ledger, food_type, amount)
     IN  /\ ledger' = r.ledger
         /\ last' = Outcome("use_food", <<food_type, amount>>, r.err,
                            r.err # "none", r.err = "none", 0, 0)
  /\ ops' = ops + 1
  /\ UNCHANGED <<animal, enclosures, zoo, mgr>>

\* ResourceManager.use_medicine(medicine_type, quantity) called directly
UseMedicine(medicine_type, quantity) ==
  /\ mgr.pc = "idle"
  /\ ops < MaxLedgerOps
  /\ LET r == use_medicine(ledger, medicine_type, quantity)
     IN  /\ ledger' = r.ledger
         /\ last' = Outcome("use_medicine", <<medicine_type, quantity>>,
                            r.err, r.err # "none", r.err = "none", 0, 0)
  /\ ops' = ops + 1
  /\ UNCHANGED <<animal, enclosures, zoo, mgr>>

\* Zoo.daily_update with the draws fixed: visitors and income, enclosure
\* updates, operating costs, reset of the daily statistics, day counter
\* a day that gives up, uncounted, when the operating cost is not covered
daily_update_stops_unpaid(z, encs, anim, l, rf, dirt, draws) ==
  LET visitors == VisitorsToday(encs, rf)
      l1 == add_funds(l, visitors * TicketPrice).ledger
      u  == UpdateEnclosuresFrom(encs, anim, dirt, draws, 1)
      l2 == _pay_operating_costs(l1, u.encs)
      l3 == reset_daily_stats(l2)
      paid == l1.funds - l2.funds
  IN  [zoo |-> [z EXCEPT !.visitors_today = 0,
                         !.total_visitors = @ + visitors,
                         !.days_operational =
                            IF paid = 0 THEN @ ELSE @ + 1],
       encs |-> u.encs, anim |-> u.anim, ledger |-> l3,
       visitors |-> visitors, paid |-> paid]

\* a day that attempts the operating cost before the tickets are sold
daily_update_cost_first(z, encs, anim, l, rf, dirt, draws) ==
  LET visitors == VisitorsToday(encs, rf)
      l1 == _pay_operating_costs(l, encs)
      u  == UpdateEnclosuresFrom(encs, anim, dirt, draws, 1)
      l2 == add_funds(l1, visitors * TicketPrice).ledger
      l3 == reset_daily_stats(l2)
  IN  [zoo |-> [z EXCEPT !.visitors_today = 0,
                         !.total_visitors = @ + visitors,
                         !.days_operational = @ + 1],
       encs |-> u.encs, anim |-> u.anim, ledger |-> l3,
       visitors |-> visitors, paid |-> l.funds - l1.funds]

\* a day that resets the accumulators before the operating cost is booked
daily_update_reset_first(z, encs, anim, l, rf, dirt, draws) ==
  LET visitors == VisitorsToday(encs, rf)
      l1 == add_funds(l, visitors * TicketPrice).ledger
      u  == UpdateEnclosuresFrom(encs, anim, dirt, draws, 1)
      l2 == reset_daily_stats(l1)
      l3 == _pay_operating_costs(l2, u.encs)
  IN  [zoo |-> [z EXCEPT !.visitors_today = 0,
                         !.total_visitors = @ + visitors,
                         !.days_operational = @ + 1],
       encs |-> u.encs, anim |-> u.anim, ledger |-> l3,
       visitors |-> visitors, paid |-> l2.funds - l3.funds]

\* a day that leaves the daily statistics of the ledger as they are
daily_update_no_reset(z, encs, anim, l, rf, dirt, draws) ==
  LET visitors == VisitorsToday(encs, rf)
      l1 == add_funds(l, visitors * TicketPrice).ledger
      u  == UpdateEnclosuresFrom(encs, anim, dirt, draws, 1)
      l2 == _pay_operating_costs(l1, u.encs)
  IN  [zoo |-> [z EXCEPT !.visitors_today = 0,
                         !.total_visitors = @ + visitors,
                         !.days_operational = @ + 1],
       encs |-> u.encs, anim |-> u.anim, ledger |-> l2,
       visitors |-> visitors, paid |-> l1.funds - l2.funds]

daily_update(z, encs, anim, l, rf, dirt, draws) ==
  LET visitors == VisitorsToday(encs, rf)
      l1 == add_funds(l, visitors * TicketPrice).ledger
      u  == UpdateEnclosuresFrom(encs, anim, dirt, draws, 1)
      l2 == _pay_operating_costs(l1, u.encs)
      l3 == reset_daily_stats(l2)
  IN  [zoo |-> [z EXCEPT !.visitors_today = 0,
                         !.total_visitors = @ + visitors,
                         !.days_operational = @ + 1],
       encs |-> u.encs, anim |-> u.anim, ledger |-> l3,
       visitors |-> visitors, paid |-> l1.funds - l2.funds]

\* the draws of one day explored by the model: the random factor of the
\* visitors, the dirt per animal and the draws of the animals
DayDraws ==
  {[rf |-> -20, dirt |-> T(2), draw |-> NoDraw],
   [rf |-> 50, dirt |-> T(8), draw |-> HardDraw],
   [rf |-> 50, dirt |-> T(2), draw |-> SocialDraw]}

\* ZooManager.advance_day, first part: day counter, then the start of
\* EventManager.trigger_daily_events (reset of every event, target 1..3)
StartDay ==
  /\ Idle
  /\ \E n \in 1..3 :
       mgr' = [mgr EXCEPT !.day_count = @ + 1, !.pc = "events",
                          !.num_events = n, !.triggered = 0, !.tried = {},
                          !.occurred = {}, !.today_events = <<>>]
  /\ last' = Outcome("advance_day", <<>>, "none", FALSE, TRUE, 0, 0)
  /\ UNCHANGED <<animal, enclosures, ledger, zoo, ops>>

\* a scan that goes on after the target of the day is met
ScanStepPastTarget(ev) ==
  /\ mgr.pc = "events"
  /\ ev \notin mgr.tried
  /\ \E r \in Trigger(ev, animal, enclosures, ledger, mgr.day_count) :
       /\ animal' = r.anim
       /\ enclosures' = r.encs
       /\ ledger' = r.ledger
       /\ IF r.err # "none"
          THEN /\ mgr' = [mgr EXCEPT !.pc = "idle", !.num_events = 0,
                                     !.triggered = 0, !.tried = {}]
               /\ last' = Outcome("advance_day", <<ev>>, r.err, TRUE, FALSE,
                                  0, 0)
          ELSE /\ mgr' = [mgr EXCEPT
                            !.tried = @ \cup {ev},
                            !.occurred = IF r.occurred THEN @ \cup {ev} ELSE @,
                            !.today_events =
                               IF r.success THEN Append(@, ev) ELSE @,
                            !.triggered = IF r.success THEN @ + 1 ELSE @]
               /\ last' = Outcome("trigger", <<ev>>, "none", FALSE, r.success,
                                  r.fin, r.vis)
  /\ UNCHANGED <<zoo, ops>>

\* one iteration of the scan of trigger_daily_events that reaches trigger:
\* the catalogue is shuffled and should_occur is random, so the next event
\* triggered is any event not yet met in this scan.  An exception that
\* leaves trigger also leaves trigger_daily_events and advance_day.
ScanStep(ev) ==
  /\ mgr.pc = "events"
  /\ mgr.triggered < mgr.num_events
  /\ ev \notin mgr.tried
  /\ \E r \in Trigger(ev, animal, enclosures, ledger, mgr.day_count) :
       /\ animal' = r.anim
       /\ enclosures' = r.encs
       /\ ledger' = r.ledger
       /\ IF r.err # "none"
          THEN /\ mgr' = [mgr EXCEPT !.pc = "idle", !.num_events = 0,
                                     !.triggered = 0, !.tried = {}]
               /\ last' = Outcome("advance_day", <<ev>>, r.err, TRUE, FALSE,
                                  0, 0)
          ELSE /\ mgr' = [mgr EXCEPT
                            !.tried = @ \cup {ev},
                            !.occurred = IF r.occurred THEN @ \cup {ev} ELSE @,
                            !.today_events =
                               IF r.success THEN Append(@, ev) ELSE @,
                            !.triggered = IF r.success THEN @ + 1 ELSE @]
               /\ last' = Outcome("trigger", <<ev>>, "none", FALSE, r.success,
                                  r.fin, r.vis)
  /\ UNCHANGED <<zoo, ops>>

\* the iterations of the scan that the runs of the whole zoo explore
EventStep(ev) ==
  /\ Cardinality(mgr.tried) < MaxTriggers
  /\ ScanStep(ev)

\* ZooManager._generate_daily_events on the snapshot of get_zoo_status: one
\* entry at most per resident, then the entries of the whole zoo, cut to 5
_generate_daily_events(encs, anim, l) ==
  LET ids == AllResidents(encs)
      Mood(a) == IF a.happiness > T(80) THEN "happy"
                 ELSE IF a.hunger > T(70) THEN "hungry"
                 ELSE IF a.health < T(50) THEN "unwell" ELSE "none"
      moods == SelectSeq([n \in DOMAIN ids |-> Mood(anim[ids[n]])],
                         LAMBDA m : m # "none")
      turnout == IF l.daily_income > 1000 THEN <<"great turnout">> ELSE <<>>
      dirty == IF \E k \in DOMAIN encs : needs_cleaning(encs[k])
               THEN <<"needs cleaning">> ELSE <<>>
      events == moods \o turnout \o dirty
  IN  SubSeq(events, 1, Min(5, Len(events)))

\* a day whose behaviour events are drawn up before the zoo is updated
DailyUpdateEarlySynthesis ==
  /\ mgr.pc = "events"
  /\ \E w \in DayDraws :
       LET r == daily_update(zoo, enclosures, animal, ledger, w.rf,
                             [k \in DOMAIN enclosures |-> w.dirt],
                             [i \in DOMAIN animal |-> w.draw])
       IN  /\ zoo' = r.zoo
           /\ enclosures' = r.encs
           /\ animal' = r.anim
           /\ ledger' = r.ledger
           /\ last' = Outcome("daily_update",
                              <<_generate_daily_events(enclosures, animal,
                                                       ledger),
                                mgr.critical>>,
                              "none", FALSE, TRUE, -r.paid, r.visitors)
  /\ mgr' = [mgr EXCEPT !.pc = "idle", !.num_events = 0, !.triggered = 0,
                        !.tried = {}]
  /\ UNCHANGED ops

\* the scan ends (target met, or no further event occurs), then
\* Zoo.daily_update runs, the behaviour events are drawn up from the zoo as
\* the update left it, the health alerts are read, and advance_day returns
\* its day result: <<behavior_events, critical_animals>>
DailyUpdate ==
  /\ mgr.pc = "events"
  /\ \E w \in DayDraws :
       LET r == daily_update(zoo, enclosures, animal, ledger, w.rf,
                             [k \in DOMAIN enclosures |-> w.dirt],
                             [i \in DOMAIN animal |-> w.draw])
       IN  /\ zoo' = r.zoo
           /\ enclosures' = r.encs
           /\ animal' = r.anim
           /\ ledger' = r.ledger
           /\ last' = Outcome("daily_update",
                              <<_generate_daily_events(r.encs, r.anim,
                                                       r.ledger),
                                mgr.critical>>,
                              "none", FALSE, TRUE, -r.paid, r.visitors)
  /\ mgr' = [mgr EXCEPT !.pc = "idle", !.num_events = 0, !.triggered = 0,
                        !.tried = {}]
  /\ UNCHANGED ops

\* the name of the i-th enclosure added after the initial three
PaddockName(i) == "paddock " \o ToString(i)

\* Zoo.add_enclosure(Enclosure(name, 1, "paddock")): a name already in the
\* zoo raises EnclosureError, any other enclosure is appended.  The runs
\* explored build their enclosures before the first day.
ZooAddEnclosure(name) ==
  /\ mgr.pc = "idle"
  /\ zoo.days_operational = 0
  /\ IF \E k \in DOMAIN enclosures : enclosures[k].name = name
     THEN /\ last' = Outcome("add_enclosure", <<name>>, "EnclosureError",
                             TRUE, FALSE, 0, 0)
          /\ UNCHANGED enclosures
     ELSE /\ Len(enclosures) < Len(InitialEnclosures) + MaxPaddocks
          /\ enclosures' = Append(enclosures,
                                  NewEnclosure(name, 1, "paddock", {}))
          /\ last' = Outcome("add_enclosure", <<name>>, "none", FALSE, TRUE,
                             0, 0)
  /\ UNCHANGED <<animal, ledger, zoo, mgr, ops>>

\* Zoo.daily_update() called on the zoo itself
ZooDailyUpdate ==
  /\ mgr.pc = "idle"
  /\ zoo.days_operational < MaxDays
  /\ \E w \in DayDraws :
       LET r == daily_update(zoo, enclosures, animal, ledger, w.rf,
                             [k \in DOMAIN enclosures |-> w.dirt],
                             [i \in DOMAIN animal |-> w.draw])
       IN  /\ zoo' = r.zoo
           /\ enclosures' = r.encs
           /\ animal' = r.anim
           /\ ledger' = r.ledger
           /\ last' = Outcome("daily_update", <<>>, "none", FALSE, TRUE,
                              -r.paid, r.visitors)
  /\ UNCHANGED <<mgr, ops>>

Next ==
  \/ \E c \in DOMAIN Candidates, n \in EnclosureNames : ZooAddAnimal(c, n)
  \/ \E k \in DOMAIN enclosures, n \in AnimalNames :
       EnclosureRemoveAnimal(k, n)
  \/ \E t \in FeedTargets : ZooFeedAnimals(t)
  \/ CleanEnclosures
  \/ OrderSupplies
  \/ StartDay
  \/ \E ev \in Events : EventStep(ev)
  \/ DailyUpdate

Spec == Init /\ [][Next]_vars

\* the enclosures driven through their own interface
NextEnclosure ==
  \/ \E k \in DOMAIN enclosures, c \in DOMAIN Candidates :
       EnclosureAddAnimal(k, c)
  \/ \E k \in DOMAIN enclosures, n \in AnimalNames :
       EnclosureRemoveAnimal(k, n)

SpecEnclosure == Init /\ [][NextEnclosure]_vars

\* the ledger driven through its own interface
NextLedger ==
  \/ \E a \in Amounts : SpendFunds(a)
  \/ \E a \in Amounts : AddFunds(a)
  \/ \E t \in OrderedFood, n \in Quantities, c \in UnitCosts :
       OrderFood(t, n, c)
  \/ \E t \in OrderedMedicine, n \in Quantities, c \in UnitCosts :
       OrderMedicine(t, n, c)
  \/ \E t \in OrderedFood, n \in Quantities : UseFood(t, n)
  \/ \E t \in OrderedMedicine, n \in Quantities : UseMedicine(t, n)

SpecLedger == Init /\ [][NextLedger]_vars

\* the inputs of the runs that grow the zoo: a worn lion and a zebra for
\* the savannah, a spend that empties the initial ledger (and fails after)
DayCandidates == {2, 3}

DayEnclosureNames == {"savannah plains"}

DaySpends == {600}

DayIncomes == {100}

\* the zoo grown by further enclosures and run through its own daily update
NextDay ==
  \/ \E name \in {"Open Range", PaddockName(Len(enclosures) - 2)} :
       ZooAddEnclosure(name)
  \/ \E c \in DayCandidates, n \in DayEnclosureNames : ZooAddAnimal(c, n)
  \/ \E a \in DaySpends : SpendFunds(a)
  \/ \E a \in DayIncomes : AddFunds(a)
  \/ ZooDailyUpdate

SpecDay == Init /\ [][NextDay]_vars

\* the days of a zoo whose scans of the catalogue run to their end
NextEvents ==
  \/ \E c \in DayCandidates, n \in DayEnclosureNames : ZooAddAnimal(c, n)
  \/ StartDay
  \/ \E ev \in Events : ScanStep(ev)
  \/ DailyUpdate

SpecEvents == Init /\ [][NextEvents]_vars

\* the animals of a concrete subclass of ObservableAnimal that a caller
\* constructs, as create_animal_with_factory would build them
ObservedCandidates ==
  << NewAnimal("Observed", "Rex", "Lion", 5, "carnivore", "savannah", FALSE),
     NewAnimal("Observed", "zed", "Zebra", 3, "herbivore", "savannah", FALSE) >>

\* the amounts of the direct _modify_health calls; the losses are those an
\* event such as the heatwave applies through the same method
HealthAmounts == {-T(100), -T(68), -T(15), T(3), T(50)}

\* an observed animal is constructed and the HealthMonitor attached to it
Observe(c) ==
  /\ mgr.pc = "idle"
  /\ Len(animal) < MaxObserved
  /\ animal' = Append(animal, ObservedCandidates[c])
  /\ last' = Outcome("attach", <<c>>, "none", FALSE, TRUE, 0, 0)
  /\ UNCHANGED <<enclosures, ledger, zoo, mgr, ops>>

\* ObservableAnimal._modify_health(amount) on the i-th animal: the bounded
\* change, then the notifications, each handled by HealthMonitor.update
ModifyHealth(i, amount) ==
  /\ mgr.pc = "idle"
  /\ ops < MaxMutations
  /\ LET a == _modify_health(animal[i], amount)
         notes == HealthNotifications(animal[i].health, a.health)
     IN  /\ animal' = [animal EXCEPT ![i] = a]
         /\ mgr' = [mgr EXCEPT !.critical = NotifyAll(@, a, notes)]
         /\ last' = Outcome("_modify_health", <<i, animal[i].health, notes>>,
                            "none", FALSE, TRUE, 0, 0)
  /\ ops' = ops + 1
  /\ UNCHANGED <<enclosures, ledger, zoo>>

\* Animal._modify_hunger(amount) on the i-th animal
ModifyHunger(i, amount) ==
  /\ mgr.pc = "idle"
  /\ ops < MaxMutations
  /\ animal' = [animal EXCEPT ![i] = _modify_hunger(@, amount)]
  /\ last' = Outcome("_modify_hunger", <<i>>, "none", FALSE, TRUE, 0, 0)
  /\ ops' = ops + 1
  /\ UNCHANGED <<enclosures, ledger, zoo, mgr>>

\* Animal.update_daily_status() on the i-th animal: it writes the private
\* health field itself, so no observer hears of the change
DailyStatus(i, d) ==
  /\ mgr.pc = "idle"
  /\ ops < MaxMutations
  /\ animal' = [animal EXCEPT ![i] = update_daily_status(@, d)]
  /\ last' = Outcome("update_daily_status", <<i, animal[i].health, <<>> >>,
                     "none", FALSE, TRUE, 0, 0)
  /\ ops' = ops + 1
  /\ UNCHANGED <<enclosures, ledger, zoo, mgr>>

\* the observed animals and their monitor
NextObserver ==
  \/ \E c \in DOMAIN ObservedCandidates : Observe(c)
  \/ \E i \in DOMAIN animal, amount \in HealthAmounts :
       ModifyHealth(i, amount)
  \/ \E i \in DOMAIN animal : ModifyHunger(i, T(80))
  \/ \E i \in DOMAIN animal, d \in {NoDraw, HardDraw} : DailyStatus(i, d)

SpecObserver == Init /\ [][NextObserver]_vars

\* Enclosure.add_animal(animal) with an animal that was added before
EnclosureAddResident(k, i) ==
  /\ Idle
  /\ ops < MaxLedgerOps
  /\ LET r == add_resident(enclosures[k], animal, i)
     IN  /\ enclosures' = [enclosures EXCEPT ![k] = r.encl]
         /\ last' = Outcome("Enclosure.add_animal", <<k, i>>, r.err,
                            r.err # "none", r.err = "none", 0, 0)
  /\ ops' = ops + 1
  /\ UNCHANGED <<animal, ledger, zoo, mgr>>

\* Zoo.remove_enclosure(enclosure_name)
ZooRemoveEnclosure(enclosure_name) ==
  /\ Idle
  /\ LET r == remove_enclosure(enclosures, enclosure_name)
     IN  /\ enclosures' = r.encs
         /\ last' = Outcome("remove_enclosure", <<enclosure_name>>, r.err,
                            r.err # "none", r.ok, 0, 0)
  /\ UNCHANGED <<animal, ledger, zoo, mgr, ops>>

\* the names handed to remove_enclosure
RemovedNames == {"Savannah Plains", "Open Range", "open range", "Nowhere"}

\* the enclosures of a zoo with animals moved in, moved again and removed
NextHousing ==
  \/ \E k \in DOMAIN enclosures, c \in DayCandidates :
       EnclosureAddAnimal(k, c)
  \/ \E k \in DOMAIN enclosures, i \in DOMAIN animal :
       EnclosureAddResident(k, i)
  \/ \E k \in DOMAIN enclosures, n \in AnimalNames :
       EnclosureRemoveAnimal(k, n)
  \/ \E n \in RemovedNames : ZooRemoveEnclosure(n)

SpecHousing == Init /\ [][NextHousing]_vars

\* Enclosure.feed_animals(food_type, resource_manager) called directly; the
\* number of entries of results['failed'] is kept with the arguments
EnclosureFeedAnimals(k, food_type) ==
  /\ Idle
  /\ ops < MaxLedgerOps
  /\ LET r == feed_animals(enclosures[k], animal, ledger, food_type)
     IN  /\ animal' = r.anim
         /\ ledger' = r.ledger
         /\ last' = Outcome("Enclosure.feed_animals",
                            <<k, food_type, r.failed>>, "none", FALSE,
                            r.failed = 0, 0, 0)
  /\ ops' = ops + 1
  /\ UNCHANGED <<enclosures, zoo, mgr>>

\* enclosures that are stocked, fed, and fed again when the meat is used up
NextFeeding ==
  \/ \E k \in DOMAIN enclosures, c \in DayCandidates :
       EnclosureAddAnimal(k, c)
  \/ \E k \in DOMAIN enclosures, i \in DOMAIN animal :
       EnclosureAddResident(k, i)
  \/ UseFood("meat", 100)
  \/ \E k \in DOMAIN enclosures, t \in OrderedFood :
       EnclosureFeedAnimals(k, t)

SpecFeeding == Init /\ [][NextFeeding]_vars

\* Enclosure.update_daily_status() called directly on the k-th enclosure;
\* the cleanliness before the call is kept with the arguments
EnclosureUpdateDailyStatus(k, dirt, d) ==
  /\ mgr.pc = "idle"
  /\ ops < MaxUpdates
  /\ LET r == EnclosureDailyStatus(enclosures[k], animal, dirt,
                                   [i \in DOMAIN animal |-> d])
     IN  /\ enclosures' = [enclosures EXCEPT ![k] = r.encl]
         /\ animal' = r.anim
         /\ last' = Outcome("Enclosure.update_daily_status",
                            <<k, enclosures[k].cleanliness>>, "none", FALSE,
                            TRUE, 0, 0)
  /\ ops' = ops + 1
  /\ UNCHANGED <<ledger, zoo, mgr>>

\* Enclosure.clean() called directly on the k-th enclosure
EnclosureClean(k) ==
  /\ mgr.pc = "idle"
  /\ ops < MaxUpdates
  /\ enclosures' = [enclosures EXCEPT ![k] = clean(@)]
  /\ last' = Outcome("Enclosure.clean", <<k>>, "none", FALSE, TRUE, 0, 0)
  /\ ops' = ops + 1
  /\ UNCHANGED <<animal, ledger, zoo, mgr>>

\* the savannah stocked, soiled day after day, cleaned and rained on
NextUpkeep ==
  \/ \E c \in DayCandidates : EnclosureAddAnimal(1, c)
  \/ \E dirt \in {T(2), T(8)} :
       EnclosureUpdateDailyStatus(1, dirt, HardDraw)
  \/ EnclosureClean(1)
  \/ StartDay
  \/ ScanStep("RainyDay")
  \/ DailyUpdate

SpecUpkeep == Init /\ [][NextUpkeep]_vars

\* a zoo that gains and loses enclosures whose names differ by case only,
\* and houses animals by name
NextNaming ==
  \/ \E n \in {"Open Range", "open range"} : ZooAddEnclosure(n)
  \/ \E c \in DayCandidates, n \in EnclosureNames : ZooAddAnimal(c, n)
  \/ \E n \in RemovedNames : ZooRemoveEnclosure(n)

SpecNaming == Init /\ [][NextNaming]_vars

\* ------------------------------------------------------------ properties
\* C1: after every operation that changes vitals (the bounded modifiers, eat,
\* update_daily_status, event triggers, the enclosure daily update) the
\* health, hunger and happiness of every animal lie within [0, 100]
C1_VitalsWithinBounds ==
  \A i \in DOMAIN animal :
    /\ animal[i].health >= MinVital /\ animal[i].health <= MaxVital
    /\ animal[i].hunger >= MinVital /\ animal[i].hunger <= MaxVital
    /\ animal[i].happiness >= MinVital /\ animal[i].happiness <= MaxVital

\* a day has ended with an animal whose health was cut off at 0 and whose
\* hunger was cut off at 100
C1_Witness ==
  /\ last.op = "daily_update"
  /\ \E i \in DOMAIN animal :
       animal[i].health = MinVital /\ animal[i].hunger = MaxVital

\* C2: Enclosure.add_animal called when len(animals) = capacity raises the
\* capacity error and leaves the resident list (members and order) as it was
C2_FullEnclosureRejects ==
  [][\A k \in DOMAIN enclosures, c \in DOMAIN Candidates :
       (/\ EnclosureAddAnimal(k, c)
        /\ Len(enclosures[k].animals) = enclosures[k].capacity)
         => /\ last'.err = "EnclosureError"
            /\ last'.raised
            /\ enclosures'[k].animals = enclosures[k].animals]_vars

\* a direct add_animal on a full enclosure has just been rejected
C2_Witness ==
  /\ last.op = "Enclosure.add_animal"
  /\ last.err = "EnclosureError"
  /\ Len(enclosures[last.arg[1]].animals) = enclosures[last.arg[1]].capacity

\* C3: in every reachable state every enclosure with positive capacity holds
\* at most capacity animals
C3_WithinCapacity ==
  \A k \in DOMAIN enclosures :
    enclosures[k].capacity > 0 =>
      Len(enclosures[k].animals) <= enclosures[k].capacity

\* Zoo.add_animal has just been refused by a full enclosure that holds several animals
C3_Witness ==
  /\ last.op = "Zoo.add_animal"
  /\ last.err = "EnclosureError"
  /\ enclosures[last.arg[1]].capacity > 1
  /\ Len(enclosures[last.arg[1]].animals) = enclosures[last.arg[1]].capacity

\* C4: add_animal rejects a candidate when a resident is a carnivore and the
\* candidate a non-carnivore of another species, or the candidate is a
\* carnivore and a resident a non-carnivore of another species; so no
\* enclosure ever holds a carnivore with a non-carnivore of another species
C4_NoPredatorWithPrey ==
  /\ [](\A k \in DOMAIN enclosures :
          \A i, j \in Residents(enclosures[k]) :
            ~(/\ animal[i].diet = "carnivore"
              /\ animal[j].diet # "carnivore"
              /\ animal[i].species # animal[j].species))
  /\ [][\A k \in DOMAIN enclosures, c \in DOMAIN Candidates :
          (/\ EnclosureAddAnimal(k, c)
           /\ \E i \in Residents(enclosures[k]) :
                /\ animal[i].species # Candidates[c].species
                /\ \/ /\ animal[i].diet = "carnivore"
                      /\ Candidates[c].diet # "carnivore"
                   \/ /\ Candidates[c].diet = "carnivore"
                      /\ animal[i].diet # "carnivore")
            => /\ last'.err # "none"
               /\ enclosures'[k].animals = enclosures[k].animals]_vars

\* a candidate has just been refused for predation alone, by an enclosure
\* with two residents, room for a third and no allow-list
C4_Witness ==
  /\ last.op = "Enclosure.add_animal"
  /\ last.err = "CompatibilityError"
  /\ enclosures[last.arg[1]].compatible_species = {}
  /\ Len(enclosures[last.arg[1]].animals) = 2
  /\ Len(enclosures[last.arg[1]].animals) < enclosures[last.arg[1]].capacity

\* C5: an animal offered to an enclosure with free capacity whose residents
\* all have the candidate's species is accepted, whatever the diets and
\* whatever the configuration of the enclosure
C5_SameSpeciesAccepted ==
  [][\A k \in DOMAIN enclosures, c \in DOMAIN Candidates :
       (/\ EnclosureAddAnimal(k, c)
        /\ Len(enclosures[k].animals) < enclosures[k].capacity
        /\ \A i \in Residents(enclosures[k]) :
             animal[i].species = Candidates[c].species)
         => last'.err = "none"]_vars

\* C6: in every reachable state every resident of an enclosure that has a
\* non-empty allow-list is of a species on that list, the first animal put
\* into the empty enclosure included
C6_AllowListRespected ==
  \A k \in DOMAIN enclosures :
    enclosures[k].compatible_species # {} =>
      \A i \in Residents(enclosures[k]) :
        animal[i].species \in enclosures[k].compatible_species

\* C7: spend_funds(amount) with amount > funds raises the insufficient-funds
\* error and leaves funds and the daily-cost accumulator unchanged, and the
\* same call made again fails again on the same ledger
C7_FailedSpendChangesNothing ==
  [][\A a \in Amounts :
       (SpendFunds(a) /\ a > ledger.funds)
         => /\ last'.err = "FinancialError"
            /\ last'.raised
            /\ ledger' = ledger
            /\ spend_funds(ledger', a) =
                 [ledger |-> ledger, err |-> "FinancialError"]]_vars

\* a spend of more than the funds has just failed on a ledger that earlier
\* calls had changed
C7_Witness ==
  /\ last.op = "spend_funds"
  /\ last.raised
  /\ last.arg[1] > ledger.funds
  /\ ledger.daily_costs > 0

\* C8: from funds >= 0, after any sequence of spends, credits, orders, daily
\* updates and event triggers, successful or not, funds >= 0
C8_FundsNeverNegative == ledger.funds >= 0

\* the supplies order has used up the funds, and the escape penalty of the
\* next day could not be paid
C8_Witness ==
  /\ last.op = "advance_day"
  /\ last.err = "FinancialError"
  /\ ledger.funds = 0

C10_OrderAllOrNothing ==
  [][/\ \A t \in OrderedFood, n \in Quantities, c \in UnitCosts :
          OrderFood(t, n, c) =>
            IF n * c < 0 \/ n * c > ledger.funds
            THEN ~last'.ok /\ ledger' = ledger
            ELSE /\ last'.ok
                 /\ ledger'.funds = ledger.funds - (n * c)
                 /\ ledger'.medicine_supply = ledger.medicine_supply
                 /\ DOMAIN ledger'.food_supply =
                      DOMAIN ledger.food_supply \cup {t}
                 /\ \A u \in DOMAIN ledger'.food_supply :
                      ledger'.food_supply[u] =
                        (IF u \in DOMAIN ledger.food_supply
                         THEN ledger.food_supply[u] ELSE 0)
                        + (IF u = t THEN n ELSE 0)
     /\ \A t \in OrderedMedicine, n \in Quantities, c \in UnitCosts :
          OrderMedicine(t, n, c) =>
            IF n * c < 0 \/ n * c > ledger.funds
            THEN ~last'.ok /\ ledger' = ledger
            ELSE /\ last'.ok
                 /\ ledger'.funds = ledger.funds - (n * c)
                 /\ ledger'.food_supply = ledger.food_supply
                 /\ DOMAIN ledger'.medicine_supply =
                      DOMAIN ledger.medicine_supply \cup {t}
                 /\ \A u \in DOMAIN ledger'.medicine_supply :
                      ledger'.medicine_supply[u] =
                        (IF u \in DOMAIN ledger.medicine_supply
                         THEN ledger.medicine_supply[u] ELSE 0)
                        + (IF u = t THEN n ELSE 0)]_vars

\* an order of a food the ledger does not stock has just failed for lack of
\* funds, after an order of it that succeeded
C10_Witness ==
  /\ last.op = "order_food"
  /\ ~last.ok
  /\ last.arg[1] = "hay"
  /\ "hay" \in DOMAIN ledger.food_supply
  /\ ledger.food_supply["hay"] = 100

\* C11: after any sequence of ledger operations (use_food, order_food with
\* any food-type name, feeding) the food categories of the ledger are exactly
\* meat, fish, seeds, fruits, vegetables and insects
C11_FoodCategoriesFixed == DOMAIN ledger.food_supply = FoodCategories

\* C12: use_food and use_medicine raise and change no supply when the type is
\* unknown or the request exceeds the supply, and otherwise debit exactly the
\* request; so with requests >= 0 every food and medicine supply stays >= 0
C12_UseDebitsOrFails ==
  /\ [](/\ \A t \in DOMAIN ledger.food_supply : ledger.food_supply[t] >= 0
        /\ \A t \in DOMAIN ledger.medicine_supply :
             ledger.medicine_supply[t] >= 0)
  /\ [][/\ \A t \in OrderedFood, n \in Quantities :
             UseFood(t, n) =>
               IF t \notin DOMAIN ledger.food_supply
                  \/ n > ledger.food_supply[t]
               THEN /\ last'.err = "ResourceError"
                    /\ last'.raised
                    /\ ledger' = ledger
               ELSE /\ last'.ok
                    /\ ledger'.food_supply =
                         [ledger.food_supply EXCEPT ![t] = @ - n]
                    /\ ledger'.medicine_supply = ledger.medicine_supply
                    /\ ledger'.funds = ledger.funds
        /\ \A t \in OrderedMedicine, n \in Quantities :
             UseMedicine(t, n) =>
               IF t \notin DOMAIN ledger.medicine_supply
                  \/ n > ledger.medicine_supply[t]
               THEN /\ last'.err = "ResourceError"
                    /\ last'.raised
                    /\ ledger' = ledger
               ELSE /\ last'.ok
                    /\ ledger'.medicine_supply =
                         [ledger.medicine_supply EXCEPT ![t] = @ - n]
                    /\ ledger'.food_supply = ledger.food_supply
                    /\ ledger'.funds = ledger.funds]_vars

\* a stocked food has been used up to the last kilogram and a further use of
\* it has just been refused
C12_Witness ==
  /\ last.op = "use_food"
  /\ last.err = "ResourceError"
  /\ last.arg[1] \in DOMAIN ledger.food_supply
  /\ ledger.food_supply[last.arg[1]] = 0
  /\ last.arg[2] > 0

\* the ticket income and the operating cost of the daily update that leads
\* from the current state to the next one
IncomeOfDay == last'.vis * TicketPrice

CostOfDay == OperatingCost(enclosures)

\* C13: every call of Zoo.daily_update increases days_operational by
\* exactly 1, also when the operating cost cannot be paid
C13_DayCounted ==
  [][ZooDailyUpdate =>
       zoo'.days_operational = zoo.days_operational + 1]_vars

\* a day has been counted although its operating cost was not paid
C13_Witness ==
  /\ last.op = "daily_update"
  /\ last.fin = 0
  /\ zoo.days_operational = 1

\* C14: the ticket income is credited before the operating cost is
\* attempted: whenever the funds before the update plus the income of the
\* day reach 500 + 10 * animals + 50 * enclosures, the cost is paid in full
C14_IncomeBeforeCost ==
  [][ZooDailyUpdate =>
       (ledger.funds + IncomeOfDay >= CostOfDay =>
          /\ ledger'.funds = ledger.funds + IncomeOfDay - CostOfDay
          /\ last'.fin = -CostOfDay)]_vars

\* the cost of a day has been paid by a ledger that held less than the
\* cost before the tickets were sold
C14_Witness ==
  /\ last.op = "daily_update"
  /\ last.fin < 0
  /\ ledger.funds < last.vis * TicketPrice

\* C15: when the operating cost exceeds the funds left after the income,
\* daily_update debits nothing for operations, keeps the income and the
\* updates of the enclosures and animals, and completes without raising
C15_UnpaidCostDebitsNothing ==
  [][ZooDailyUpdate =>
       (ledger.funds + IncomeOfDay < CostOfDay =>
          /\ ledger'.funds = ledger.funds + IncomeOfDay
          /\ last'.fin = 0
          /\ ~last'.raised
          /\ \E w \in DayDraws :
               LET u == UpdateEnclosuresFrom(enclosures, animal,
                          [k \in DOMAIN enclosures |-> w.dirt],
                          [i \in DOMAIN animal |-> w.draw], 1)
               IN  /\ VisitorsToday(enclosures, w.rf) = last'.vis
                   /\ enclosures' = u.encs
                   /\ animal' = u.anim)]_vars

\* an unpaid day of a zoo with a resident: the income is in the ledger and
\* the resident has aged through the day
C15_Witness ==
  /\ last.op = "daily_update"
  /\ last.fin = 0
  /\ ledger.funds = last.vis * TicketPrice
  /\ Len(animal) >= 1
  /\ \E k \in DOMAIN enclosures : enclosures[k].cleanliness < T(100)

\* C16: the daily-cost and daily-income accumulators are reset once per
\* daily_update, after the operating-cost step, and by no ledger operation:
\* right after every daily_update both are 0, and no other step lowers them
C16_AccumulatorsReset ==
  [][/\ ZooDailyUpdate =>
          /\ ledger'.daily_costs = 0
          /\ ledger'.daily_income = 0
     /\ ~ZooDailyUpdate =>
          /\ ledger'.daily_costs >= ledger.daily_costs
          /\ ledger'.daily_income >= ledger.daily_income]_vars

\* both accumulators are 0 after a day whose cost was booked, in a ledger
\* that had booked calls of its own before
C16_Witness ==
  /\ last.op = "daily_update"
  /\ last.fin < 0
  /\ ops >= 2
  /\ ledger.daily_costs = 0
  /\ ledger.daily_income = 0

\* C17: whenever a zoo exists, ZooManager.advance_day runs to completion and
\* returns a day result without raising; no failure inside a single event
\* trigger aborts the day
C17_AdvanceDayCompletes == ~(last.op = "advance_day" /\ last.raised)

\* C18: a failed event trigger has no effect on the zoo state and is not
\* added to the results of the day; in particular an AnimalEscape whose
\* penalty cannot be paid leaves the animal in its enclosure
C18_FailedTriggerNoEffect ==
  [][\A ev \in Events :
       EventStep(ev) /\ ~last'.ok =>
         /\ animal' = animal
         /\ enclosures' = enclosures
         /\ ledger' = ledger
         /\ mgr'.today_events = mgr.today_events]_vars

\* C19: UnexpectedExpense.trigger never raises; when the ledger cannot cover
\* the expense it returns success false with financial_impact 0, leaves the
\* funds unchanged and is not marked as occurred
C19_ExpenseNeverRaises ==
  [][EventStep("UnexpectedExpense") =>
       /\ ~last'.raised
       /\ ~last'.ok =>
            /\ last'.op = "trigger"
            /\ last'.fin = 0
            /\ ledger' = ledger
            /\ "UnexpectedExpense" \notin mgr'.occurred]_vars

C21_RecordedEventsOccurred ==
  \A i \in DOMAIN mgr.today_events : mgr.today_events[i] \in mgr.occurred

\* C22: every numeric delta reported by a successful trigger has been
\* applied to the zoo when trigger returns; in particular a reported
\* visitor_impact is reflected in the visitor counters of the zoo
C22_VisitorImpactApplied ==
  [][\A ev \in Events :
       ScanStep(ev) /\ last'.ok /\ last'.vis # 0 =>
         \/ zoo'.visitors_today = zoo.visitors_today + last'.vis
         \/ zoo'.total_visitors = zoo.total_visitors + last'.vis]_vars

\* the range GenerousDonorEvent.trigger draws its base donation from
DonationRange == 1000..5000

BirthPossible ==
  LET parents == {p \in Pairs(enclosures) : animal[p[2]].age >= 2}
  IN  /\ parents # {}
      /\ \A p \in parents :
           AddAnimalError(enclosures[p[1]], animal,
                          NewAnimal(animal[p[2]].kind, "Baby",
                                    animal[p[2]].species, 0,
                                    animal[p[2]].diet, animal[p[2]].habitat,
                                    animal[p[2]].can_fly)) = "none"

\* C24: AnimalBirth.trigger, given a resident of age >= 2 whose enclosure
\* has free capacity and accepts its species, returns success, adds exactly
\* one animal of age 0 and the species of the parent to the enclosure of the
\* parent, and raises the happiness of every resident there by 10 (at most
\* 100)
C24_BirthAddsBaby ==
  [][ScanStep("AnimalBirth") /\ BirthPossible =>
       /\ last'.ok
       /\ Len(animal') = Len(animal) + 1
       /\ animal'[Len(animal')].age = 0
       /\ \E k \in DOMAIN enclosures :
            /\ enclosures'[k].animals =
                 Append(enclosures[k].animals, Len(animal'))
            /\ \E i \in Residents(enclosures[k]) :
                 /\ animal[i].age >= 2
                 /\ animal[i].species = animal'[Len(animal')].species
            /\ \A i \in Residents(enclosures[k]) :
                 animal'[i].happiness =
                   Min(MaxVital, animal[i].happiness + T(10))]_vars

\* C25: the critical set of the HealthMonitor holds the key of an observed
\* animal right after any mutation (bounded health modification, daily
\* decay, event effect) that takes its health from above 30 to 30 or less,
\* and no longer holds it after a mutation that takes it back above 30
C25_CriticalSetFollowsHealth ==
  [][\A i \in DOMAIN animal :
       /\ (animal[i].health > HealthThreshold
             /\ animal'[i].health <= HealthThreshold)
            => AnimalKey(animal[i]) \in mgr'.critical
       /\ (animal[i].health <= HealthThreshold
             /\ animal'[i].health > HealthThreshold)
            => AnimalKey(animal[i]) \notin mgr'.critical]_vars

\* C26: one health mutation of an observed animal emits at most one
\* notification: health_critical when old > 30 and new <= 30 (also when
\* new <= 0), health_improved when old <= 30 and new > 30, animal_died only
\* when 0 < old <= 30 and new <= 0
C26_OneNotification ==
  [][\A i \in DOMAIN animal, amount \in HealthAmounts :
       ModifyHealth(i, amount) =>
         LET old == animal[i].health
             new == animal'[i].health
             notes == last'.arg[3]
             Sent(e) == \E n \in DOMAIN notes : notes[n] = e
         IN  /\ Len(notes) <= 1
             /\ Sent("health_critical") <=>
                  (old > HealthThreshold /\ new <= HealthThreshold)
             /\ Sent("health_improved") <=>
                  (old <= HealthThreshold /\ new > HealthThreshold)
             /\ Sent("animal_died") <=>
                  (0 < old /\ old <= HealthThreshold /\ new <= 0)]_vars

\* a mutation from above 30 straight to 0 has reported health_critical and
\* nothing else
C26_Witness ==
  /\ last.op = "_modify_health"
  /\ last.arg[2] > HealthThreshold
  /\ animal[last.arg[1]].health = 0
  /\ last.arg[3] = <<"health_critical">>

\* the places (enclosure, position) at which animal i is listed as resident
PlacesOf(i) ==
  UNION {{<<k, n>> : n \in {m \in DOMAIN enclosures[k].animals :
                                 enclosures[k].animals[m] = i}} :
           k \in DOMAIN enclosures}

\* C27: in every reachable state each animal is resident in at most one
\* enclosure and appears at most once in its resident list, whatever the
\* add_animal and remove_animal calls, including an add of an animal that
\* is resident somewhere already
C27_OneHomePerAnimal ==
  \A i \in DOMAIN animal : Cardinality(PlacesOf(i)) <= 1

\* C29: Zoo.remove_enclosure removes an enclosure only when it has no
\* residents: for an enclosure with residents it fails and leaves the list
\* of enclosures unchanged, for an unknown name it returns false and changes
\* nothing; no resident is lost through remove_enclosure
C29_RemoveOnlyEmpty ==
  [][\A name \in RemovedNames :
       ZooRemoveEnclosure(name) =>
         LET named == {k \in DOMAIN enclosures : enclosures[k].name = name}
         IN  /\ animal' = animal
             /\ ResidentSet(enclosures') = ResidentSet(enclosures)
             /\ named = {} =>
                  ~last'.ok /\ ~last'.raised /\ enclosures' = enclosures
             /\ \A k \in named :
                  IF enclosures[k].animals # <<>>
                  THEN /\ last'.raised
                       /\ ~last'.ok
                       /\ enclosures' = enclosures
                  ELSE /\ last'.ok
                       /\ Len(enclosures') = Len(enclosures) - 1
                       /\ \A j \in DOMAIN enclosures' :
                            enclosures'[j] =
                              enclosures[IF j < k THEN j ELSE j + 1]]_vars

\* the removal of an enclosure with a resident has just been refused, after
\* an empty enclosure had been removed
C29_Witness ==
  /\ last.op = "remove_enclosure"
  /\ last.raised
  /\ Len(enclosures) = 2
  /\ \E k \in DOMAIN enclosures :
       /\ enclosures[k].name = last.arg[1]
       /\ enclosures[k].animals # <<>>

RECURSIVE EatTimes(_, _, _)
EatTimes(a, food, n) ==
  IF n = 0 THEN a ELSE EatTimes(eat(a, food), food, n - 1)

\* C30: Enclosure.feed_animals is all-or-nothing with respect to the food
\* supply: if the ledger cannot supply 2 kg per resident of the food type,
\* or does not know the type, no vitals and no supply change and exactly one
\* failure is reported; otherwise the supply drops by exactly 2 kg per
\* resident and every entry of the resident list eats once
C30_FeedAllOrNothing ==
  [][\A k \in DOMAIN enclosures, t \in OrderedFood :
       EnclosureFeedAnimals(k, t) =>
         LET need == 2 * Len(enclosures[k].animals)
         IN  IF t \notin DOMAIN ledger.food_supply
                \/ ledger.food_supply[t] < need
             THEN /\ animal' = animal
                  /\ ledger' = ledger
                  /\ last'.arg[3] = 1
             ELSE /\ ledger'.food_supply =
                       [ledger.food_supply EXCEPT ![t] = @ - need]
                  /\ ledger'.funds = ledger.funds
                  /\ last'.arg[3] = 0
                  /\ \A i \in DOMAIN animal :
                       animal'[i] =
                         EatTimes(animal[i], t,
                           Cardinality({m \in DOMAIN enclosures[k].animals :
                                          enclosures[k].animals[m] = i}))]_vars

\* a feeding of meat to an enclosure with residents has just failed because
\* the meat is used up
C30_Witness ==
  /\ last.op = "Enclosure.feed_animals"
  /\ last.arg[2] = "meat"
  /\ last.arg[3] = 1
  /\ enclosures[last.arg[1]].animals # <<>>
  /\ ledger.food_supply["meat"] < 2

\* C31: within advance_day every effect of the day's events is applied
\* before Zoo.daily_update starts, so the visitors and the operating cost of
\* the day are computed from the animal count the events left; the behaviour
\* events and the health alerts are taken from the zoo as daily_update left
\* it
C31_EventsThenUpdateThenReport ==
  [][/\ \A ev \in Events :
          ScanStep(ev) =>
            /\ last.op \in {"advance_day", "trigger"}
            /\ zoo' = zoo
     /\ DailyUpdate =>
          /\ last.op \in {"advance_day", "trigger"}
          /\ \E w \in DayDraws :
               last'.vis = VisitorsToday(enclosures, w.rf)
          /\ -last'.fin \in {0, OperatingCost(enclosures)}
          /\ get_animal_count(enclosures') = get_animal_count(enclosures)
          /\ last'.arg = <<_generate_daily_events(enclosures', animal',
                                                  ledger'),
                           mgr'.critical>>]_vars

\* a day on which the only animal escaped has ended: its visitors were
\* counted for a zoo without animals
C31_Witness ==
  /\ last.op = "daily_update"
  /\ mgr.today_events = <<"AnimalEscape">>
  /\ Len(animal) = 1
  /\ get_animal_count(enclosures) = 0
  /\ last.vis \in {100 + w.rf : w \in DayDraws}

\* C36: the snapshot read by advance_day after Zoo.daily_update shows
\* visitors_today = 0, daily_income = 0 and daily_costs = 0, so the entry
\* for a great visitor turnout is in no day's behaviour events
C36_TurnoutNeverReported ==
  [][DailyUpdate =>
       /\ zoo'.visitors_today = 0
       /\ ledger'.daily_income = 0
       /\ ledger'.daily_costs = 0
       /\ \A n \in DOMAIN last'.arg[1] : last'.arg[1][n] # "great turnout"]_vars

\* a day that took more than 1000 in tickets has ended
C36_Witness ==
  /\ last.op = "daily_update"
  /\ last.vis * TicketPrice > 1000
  /\ ledger.daily_income = 0
  /\ \A n \in DOMAIN last.arg[1] : last.arg[1][n] # "great turnout"

\* C32: Enclosure.update_daily_status first lowers the cleanliness by
\* resident_count * dirt (floored at 0), then runs the daily update of every
\* resident, then takes 5 from the happiness of every resident if and only
\* if the lowered cleanliness is below 50; the cleanliness stays within
\* [0, 100] across daily updates, clean() calls and RainyDay triggers
C32_SoilThenUpdateThenPenalty ==
  [][/\ \A k \in DOMAIN enclosures' :
          /\ enclosures'[k].cleanliness >= 0
          /\ enclosures'[k].cleanliness <= T(100)
     /\ \A dirt \in {T(2), T(8)}, d \in {HardDraw} :
          EnclosureUpdateDailyStatus(1, dirt, d) =>
            LET e == enclosures[1]
                c == IF e.cleanliness - (Len(e.animals) * dirt) < 0 THEN 0
                     ELSE e.cleanliness - (Len(e.animals) * dirt)
            IN  /\ enclosures'[1].cleanliness = c
                /\ \A i \in Residents(e) :
                     animal'[i] =
                       IF c < T(50)
                       THEN _modify_happiness(update_daily_status(animal[i], d),
                                              -T(5))
                       ELSE update_daily_status(animal[i], d)]_vars

\* a daily update has taken an enclosure with residents from at least 50 to
\* below 50 and the residents have paid the penalty of that same day
C32_Witness ==
  /\ last.op = "Enclosure.update_daily_status"
  /\ last.arg[2] >= T(50)
  /\ enclosures[last.arg[1]].cleanliness < T(50)
  /\ enclosures[last.arg[1]].animals # <<>>

\* C33: a successful AnimalEscape removes exactly the animal it selected:
\* the one resident that leaves has happiness < 40, its enclosure loses
\* exactly one resident, every other resident stays, and funds drop by
\* exactly the reported penalty
C33_EscapeeIsTheOneRemoved ==
  [][(ScanStep("AnimalEscape") /\ last'.ok) =>
       LET gone == ResidentSet(enclosures) \ ResidentSet(enclosures')
       IN  /\ Cardinality(gone) = 1
           /\ \A i \in gone : animal[i].happiness < T(40)
           /\ get_animal_count(enclosures') = get_animal_count(enclosures) - 1
           /\ ledger'.funds = ledger.funds + last'.fin
           /\ last'.fin < 0]_vars

\* C34: whenever no advance_day call is in progress, the manager's day_count
\* equals the zoo's days_operational, whether the operations before
\* returned normally or raised
C34_DayCountIsDaysOperational ==
  mgr.pc = "idle" => mgr.day_count = zoo.days_operational

\* C35: looking up an enclosure of the zoo by its own name, as Zoo.add_animal
\* and Zoo.feed_animals do, yields that enclosure itself: no two enclosures
\* of a zoo have names that the lookup treats as equal
C35_LookupFindsItself ==
  \A k \in DOMAIN enclosures :
    _find_enclosure(enclosures, enclosures[k].name) = k

\* C37: starting from funds >= 0, after every completed Zoo.daily_update
\* funds are > 0 unless the funds after the ticket income equal the
\* operating cost exactly; a day whose operating cost cannot be paid raises
\* funds by the ticket income of the day (at least 10 visitors), so
\* is_game_over (funds <= 0) is false after such a day
C37_UnpaidDayLeavesFunds ==
  [][(ZooDailyUpdate /\ ledger.funds >= 0) =>
       LET income == IncomeOfDay
           post == ledger.funds + income
       IN  /\ income >= 10 * TicketPrice
           /\ ledger'.funds > 0 \/ post = CostOfDay
           /\ post = CostOfDay => ledger'.funds = 0
           /\ post < CostOfDay =>
                /\ ledger'.funds = ledger.funds + income
                /\ ledger'.funds > 0]_vars

\* a day has ended whose operating cost exceeded everything the zoo had
\* after the tickets of the day; the income is still there
C37_Witness ==
  /\ last.op = "daily_update"
  /\ last.fin = 0
  /\ ledger.funds = last.vis * TicketPrice
  /\ ledger.funds < OperatingCost(enclosures)
  /\ ledger.funds > 0

\* C38: for observed animals whose health changes only through the
\* notifying health mutator, every animal with 0 < health <= 30 has its key
\* (name + species) in the critical set of the HealthMonitor, also when
\* several observed animals share name and species and one of them recovers
\* or dies
C38_CriticalKeyKept ==
  [][\A i \in DOMAIN animal, amount \in HealthAmounts :
       LET Listed(anim, critical) ==
             \A j \in DOMAIN anim :
               (anim[j].health > 0 /\ anim[j].health <= HealthThreshold)
                 => AnimalKey(anim[j]) \in critical
       IN  (ModifyHealth(i, amount) /\ Listed(animal, mgr.critical))
             => Listed(animal', mgr'.critical)]_vars

\* C39: every animal resident in a zoo managed by ZooManager has the
\* manager's HealthMonitor attached, so a resident whose health falls from
\* above 30 to 30 or less during a day is listed in the critical_animals of
\* that day's result
C39_ResidentsAreMonitored ==
  [][/\ mgr.pc = "events" =>
          \A i \in DOMAIN animal :
            (/\ i \in ResidentSet(enclosures')
             /\ animal[i].health > HealthThreshold
             /\ animal'[i].health <= HealthThreshold)
              => AnimalKey(animal'[i]) \in mgr'.critical
     /\ DailyUpdate => last'.arg[2] = mgr'.critical]_vars

====
